---- MODULE Spec2Model ----
(***************************************************************************)
(* Model of the driver-intent fine-tuning notebooks.                       *)
(*                                                                         *)
(* Three recorded notebook runs are modelled, selected by `notebook`:      *)
(*   "bert"  - full fine-tuning of bert-base-uncased (src/unnamed/part_000)*)
(*   "draft" - first QLoRA notebook, ends in KeyError (src/qlora.ipynb,    *)
(*             first JSON document, lines 1-422)                           *)
(*   "qlora" - final QLoRA notebook (src/qlora.ipynb, lines 423-1040)      *)
(* Each notebook is a linear script of statements; `pc` is the statement   *)
(* about to run.  trainer.train() is unfolded into the loop the notebooks  *)
(* drive through TrainingArguments: one action per training batch, one     *)
(* for the log/evaluate/save phase after an optimizer step, one for the    *)
(* end of an epoch and one for the end of training.                        *)
(***************************************************************************)
EXTENDS Integers, Sequences, FiniteSets, TLC

\* ------------------------------------------------------------------------
\* Bounds of the model (not program constants)
\* ------------------------------------------------------------------------
\* number of examples in the evaluation split seen by the training runs
EvalSize == 4
\* pure-function specifications: sizes of the inputs that are enumerated
MaxParams == 3
MaxNumel == 2
MaxExamples == 2
\* checkpoints past the end of the run that an earlier run may have left
MaxStale == 2

\* ------------------------------------------------------------------------
\* Program constants
\* ------------------------------------------------------------------------
\* num_labels passed to from_pretrained in every notebook
NumLabels == 5
\* batches per epoch of the train split: 1000 steps for 10 epochs
TrainBatches == 100

Notebooks == {"bert", "draft", "qlora"}

\* ------------------------------------------------------------------------
\* Generic helpers
\* ------------------------------------------------------------------------
RECURSIVE SumNumel(_, _)
\* sum of numel over the parameters of ps whose index satisfies keep
SumNumel(ps, keep) ==
    IF ps = << >> THEN 0
    ELSE (IF keep[Len(ps)] THEN ps[Len(ps)].numel ELSE 0)
         + SumNumel(SubSeq(ps, 1, Len(ps) - 1), keep)

Max(a, b) == IF a >= b THEN a ELSE b

\* ceil(a / b) for b > 0
CeilDiv(a, b) == (a + b - 1) \div b

\* ------------------------------------------------------------------------
\* print_trainable_parameters
\* ------------------------------------------------------------------------
\* a bug: the requires_grad test is dropped, every parameter counts as
\* trainable
MutCountParametersAllTrainable(ps) ==
    [trainable_params |-> SumNumel(ps, [i \in 1..Len(ps) |-> TRUE]),
     all_param |-> SumNumel(ps, [i \in 1..Len(ps) |-> TRUE])]

RECURSIVE CountParameters(_)
\* the for loop over model.named_parameters(): all_param adds every numel,
\* trainable_params adds the numel of the parameters with requires_grad
CountParameters(ps) ==
    IF ps = << >> THEN [trainable_params |-> 0, all_param |-> 0]
    ELSE LET rest  == CountParameters(SubSeq(ps, 1, Len(ps) - 1))
             param == ps[Len(ps)]
         IN [all_param |-> rest.all_param + param.numel,
             trainable_params |->
                 IF param.requires_grad
                 THEN rest.trainable_params + param.numel
                 ELSE rest.trainable_params]

RECURSIVE TimesDivMod(_, _, _)
\* quotient and remainder of (r * k) by a, for 0 <= r < a, by repeated
\* addition so that no intermediate value exceeds a
TimesDivMod(r, k, a) ==
    IF k = 0 THEN [q |-> 0, r |-> 0]
    ELSE LET p == TimesDivMod(r, k - 1, a)
         IN IF p.r >= a - r THEN [q |-> p.q + 1, r |-> p.r - (a - r)]
            ELSE [q |-> p.q, r |-> p.r + r]

RECURSIVE Pow2Mod25(_)
\* 2^s modulo 25
Pow2Mod25(s) == IF s = 0 THEN 1 ELSE (2 * Pow2Mod25(s - 1)) % 25

RECURSIVE MantissaShift(_, _)
\* the s with 2^52 <= (n / 25) * 2^s < 2^53, for n >= 1: s = 57 - j for the
\* least j with 32 * n < 25 * 2^(j + 1)
MantissaShift(n, j) ==
    IF 32 * n < 25 * (2 ^ (j + 1)) THEN 57 - j ELSE MantissaShift(n, j + 1)

\* the double nearest to n / 200 (n odd, not a multiple of 25) lies above
\* n / 200: the 53-bit mantissa of n / 25 is rounded up, i.e. the remainder
\* of n * 2^s by 25 is more than half of 25
DoubleAbove(n) == (n * Pow2Mod25(MantissaShift(n, 0))) % 25 >= 13

\* f"{100 * t / a:.2f}" as a number of hundredths, for 0 <= t <= a, a > 0.
\* 100 * t / a is the double nearest to the exact quotient and .2f rounds
\* the exact value of that double to the nearest hundredth.  Unless the
\* quotient is half-way between two hundredths the double rounds as the
\* quotient does.  A half-way quotient n / 200 (n odd) that is a double
\* (n a multiple of 25, an eighth) is a tie and goes to the even hundredth;
\* any other goes the way its double lies.
FormatPercent(t, a) ==
    IF t = a THEN 10000
    ELSE LET d1 == TimesDivMod(t, 10, a)
             d2 == TimesDivMod(d1.r, 10, a)
             d3 == TimesDivMod(d2.r, 10, a)
             d4 == TimesDivMod(d3.r, 10, a)
             v  == d1.q * 1000 + d2.q * 100 + d3.q * 10 + d4.q
             n  == 2 * v + 1
         IN IF d4.r > a - d4.r THEN v + 1
            ELSE IF d4.r < a - d4.r THEN v
            ELSE IF n % 25 = 0 THEN (IF v % 2 = 1 THEN v + 1 ELSE v)
            ELSE IF DoubleAbove(n) THEN v + 1
            ELSE v

\* what print_trainable_parameters(model) prints, or the exception it raises
print_trainable_parameters(m) ==
    LET c == CountParameters(m.params)
    IN IF c.all_param = 0
       THEN [raised |-> "ZeroDivisionError",
             trainable_params |-> c.trainable_params,
             all_param |-> c.all_param, percent |-> 0]
       ELSE [raised |-> "none",
             trainable_params |-> c.trainable_params,
             all_param |-> c.all_param,
             percent |-> FormatPercent(c.trainable_params, c.all_param)]

\* ------------------------------------------------------------------------
\* compute_metrics
\* ------------------------------------------------------------------------
RECURSIVE ArgmaxFrom(_, _, _)
\* index (1-based) of the first maximum of row among positions i..Len(row),
\* given the best position found so far
ArgmaxFrom(row, i, best) ==
    IF i > Len(row) THEN best
    ELSE ArgmaxFrom(row, i + 1, IF row[i] > row[best] THEN i ELSE best)

RECURSIVE LastArgmaxFrom(_, _, _)
LastArgmaxFrom(row, i, best) ==
    IF i > Len(row) THEN best
    ELSE LastArgmaxFrom(row, i + 1, IF row[i] >= row[best] THEN i ELSE best)

\* a bug: the position of the largest logit is counted from 1
MutArgmaxOneBased(logits) ==
    [i \in 1..Len(logits) |-> ArgmaxFrom(logits[i], 2, 1)]

\* a bug: among tied logits the last class is taken
MutArgmaxLastOfTies(logits) ==
    [i \in 1..Len(logits) |-> LastArgmaxFrom(logits[i], 2, 1) - 1]

\* logits.argmax(axis=-1): the class (0-based) of the first largest logit
Argmax(logits) == [i \in 1..Len(logits) |-> ArgmaxFrom(logits[i], 2, 1) - 1]

RECURSIVE CountEqual(_, _)
CountEqual(labels, preds) ==
    IF labels = << >> THEN 0
    ELSE (IF labels[Len(labels)] = preds[Len(labels)] THEN 1 ELSE 0)
         + CountEqual(SubSeq(labels, 1, Len(labels) - 1), preds)

\* sklearn accuracy_score: the fraction of positions where labels and
\* preds agree, kept as an exact fraction num / den (den = 0 stands for
\* the nan of an empty batch)
accuracy_score(labels, preds) ==
    [num |-> CountEqual(labels, preds), den |-> Len(labels)]

\* the dictionary compute_metrics returns
compute_metrics(p) ==
    LET logits == p.predictions
        labels == p.label_ids
        preds  == Argmax(logits)
        acc    == accuracy_score(labels, preds)
    IN [accuracy |-> acc]

\* comparison of two fractions with positive denominators
FracGreater(x, y) == x.num * y.den > y.num * x.den
FracEqual(x, y) == x.num * y.den = y.num * x.den

\* ------------------------------------------------------------------------
\* Optional values: None is << >>, a present value v is << v >>
\* ------------------------------------------------------------------------
None == << >>
Some(v) == << v >>

\* ------------------------------------------------------------------------
\* The notebooks as linear scripts
\* ------------------------------------------------------------------------
\* a bug: the cell saving the model is run before the cell that trains it
MutScriptSaveBeforeTrain(nb) ==
    IF nb = "bert" THEN
        << "load_from_disk", "from_pretrained", "print_trainable_parameters",
           "Trainer", "save_pretrained", "train" >>
    ELSE IF nb = "draft" THEN
        << "load_from_disk", "from_pretrained", "print_trainable_parameters",
           "get_peft_model", "print_trainable_parameters",
           "Trainer", "train" >>
    ELSE
        << "load_from_disk", "from_pretrained", "print_trainable_parameters",
           "prepare_model_for_kbit_training", "get_peft_model",
           "peft_print_trainable_parameters",
           "Trainer", "save_pretrained", "train" >>

\* the statements of each notebook that act on the pipeline, in cell order
Script(nb) ==
    IF nb = "bert" THEN
        << "load_from_disk", "from_pretrained", "print_trainable_parameters",
           "Trainer", "train", "save_pretrained" >>
    ELSE IF nb = "draft" THEN
        << "load_from_disk", "from_pretrained", "print_trainable_parameters",
           "get_peft_model", "print_trainable_parameters",
           "Trainer", "train" >>
    \* a single call of one of the notebooks' functions on a given argument
    ELSE IF nb = "call print_trainable_parameters" THEN
        << "print_trainable_parameters" >>
    ELSE IF nb = "call compute_metrics" THEN
        << "compute_metrics" >>
    ELSE
        << "load_from_disk", "from_pretrained", "print_trainable_parameters",
           "prepare_model_for_kbit_training", "get_peft_model",
           "peft_print_trainable_parameters",
           "Trainer", "train", "save_pretrained" >>

Statements ==
    {"load_from_disk", "from_pretrained", "print_trainable_parameters",
     "prepare_model_for_kbit_training", "get_peft_model",
     "peft_print_trainable_parameters", "Trainer", "train",
     "save_pretrained", "compute_metrics"}

\* labels of the "test" split of ../tokenized_dataset: classes 0..4.  The
\* final QLoRA run records an accuracy of 1.0 at step 90, so every label of
\* the split is a class the five-output model predicted.
TestLabels == [i \in 1..EvalSize |-> (i - 1) % NumLabels]

\* the directory ../tokenized_dataset as stored on disk
TokenizedDataset ==
    [train |-> [num_rows |-> TrainBatches * 8],
     test  |-> [num_rows |-> EvalSize, label |-> TestLabels]]

\* paths are sequences of components; path_to_retrieve is the directory
\* "../tokenized_dataset" every notebook loads from
path_to_retrieve == << "..", "tokenized_dataset" >>

\* path lies in the directory dir (or is dir itself)
IsUnder(path, dir) ==
    Len(path) >= Len(dir) /\ SubSeq(path, 1, Len(dir)) = dir

\* the directory ds stored at path_to_retrieve after files were written at
\* path: untouched unless path lies in it
WriteFiles(path, ds) ==
    IF IsUnder(path, path_to_retrieve)
    THEN [k \in DOMAIN ds \cup {"written"} |->
            IF k = "written" THEN path ELSE ds[k]]
    ELSE ds

\* a bug: the checkpoints are written next to the dataset files
MutOutputDirIsDatasetDir(nb) == path_to_retrieve

\* output_dir of the TrainingArguments
ArgsOutputDir(nb) ==
    IF nb = "bert" THEN << "..", "bert-models" >>
    ELSE IF nb = "draft" THEN << "", "results" >>
    ELSE << "..", "qlora-models" >>

\* model_path of the last cell (the draft has none)
model_path(nb) ==
    IF nb = "bert" THEN << "..", "bert-models", "best_model" >>
    ELSE << "..", "qlora-models", "best_model" >>

\* a bug: the final notebook keeps the draft's quantization settings
MutBnbConfigNoDoubleQuant(nb) ==
    IF nb = "bert" THEN None
    ELSE Some([load_in_4bit |-> TRUE,
               bnb_4bit_use_double_quant |-> FALSE,
               bnb_4bit_quant_type |-> "nf4",
               bnb_4bit_compute_dtype |-> "bfloat16"])

\* BitsAndBytesConfig of the two QLoRA notebooks (None for BERT)
bnb_config(nb) ==
    IF nb = "bert" THEN None
    ELSE Some([load_in_4bit |-> TRUE,
               bnb_4bit_use_double_quant |-> (nb = "qlora"),
               bnb_4bit_quant_type |-> "nf4",
               bnb_4bit_compute_dtype |-> "bfloat16"])

\* a bug: the pre-trained encoder is loaded frozen (feature extraction)
MutFromPretrainedFrozenEncoder(nb) ==
    [params |->
        << [name |-> "bert", numel |-> 109482240,
            requires_grad |-> FALSE, is_4bit |-> FALSE, is_bias |-> FALSE],
           [name |-> "classifier", numel |-> 3845,
            requires_grad |-> TRUE, is_4bit |-> FALSE, is_bias |-> FALSE] >>,
     num_labels |-> NumLabels, quantization_config |-> None,
     peft_config |-> None, weights |-> 0]

\* the model from_pretrained returns: parameter groups with the element
\* counts the notebooks print.  bert-base-uncased: every parameter is a
\* trainable float tensor.  bert-large-uncased in 4 bit: the weights of the
\* quantized linear layers are packed two per element and frozen together
\* with the biases of those layers; embeddings, LayerNorm and the new
\* classifier stay trainable.
FromPretrained(nb) ==
    IF nb = "bert" THEN
        [params |->
            << [name |-> "bert", numel |-> 109482240,
                requires_grad |-> TRUE, is_4bit |-> FALSE, is_bias |-> FALSE],
               [name |-> "classifier", numel |-> 3845,
                requires_grad |-> TRUE, is_4bit |-> FALSE, is_bias |-> FALSE] >>,
         num_labels |-> NumLabels, quantization_config |-> bnb_config(nb),
         peft_config |-> None, weights |-> 0]
    ELSE
        [params |->
            << [name |-> "bert.linear4bit.weight", numel |-> 151519232,
                requires_grad |-> FALSE, is_4bit |-> TRUE, is_bias |-> FALSE],
               [name |-> "bert.linear4bit.bias", numel |-> 222208,
                requires_grad |-> FALSE, is_4bit |-> FALSE, is_bias |-> TRUE],
               [name |-> "bert.embeddings_layernorm", numel |-> 31881216,
                requires_grad |-> TRUE, is_4bit |-> FALSE, is_bias |-> FALSE],
               [name |-> "classifier", numel |-> 5125,
                requires_grad |-> TRUE, is_4bit |-> FALSE, is_bias |-> FALSE] >>,
         num_labels |-> NumLabels, quantization_config |-> bnb_config(nb),
         peft_config |-> None, weights |-> 0]

\* prepare_model_for_kbit_training: freezes every parameter of the model
prepare_model_for_kbit_training(m) ==
    [m EXCEPT !.params =
        [i \in 1..Len(m.params) |->
            [m.params[i] EXCEPT !.requires_grad = FALSE]]]

\* LoraConfig bound to the name `config` in the final QLoRA notebook
config ==
    [r |-> 32, lora_alpha |-> 64, bias |-> "all", task_type |-> "SEQ_CLS",
     target_modules |-> "find_all_linear_names",
     modules_to_save |-> {"decode_head"}]

\* a bug: the adapter configuration trains the biases of the base model
MutPeftConfigBiasAll(nb) ==
    [r |-> 12, lora_alpha |-> 32, bias |-> "all", task_type |-> "SEQ_CLS",
     target_modules |-> "query_value", modules_to_save |-> {}]

\* LoraConfig bound to the name `peft_config` when get_peft_model runs
peft_config(nb) ==
    IF nb = "draft"
    THEN [r |-> 16, lora_alpha |-> 16, bias |-> "none", task_type |-> "none",
          target_modules |-> "query_value",
          modules_to_save |-> {"classifier"}]
    ELSE [r |-> 12, lora_alpha |-> 32, bias |-> "none", task_type |-> "SEQ_CLS",
          target_modules |-> "query_value", modules_to_save |-> {}]

\* elements of the adapter matrices A and B added to bert-large-uncased:
\* per rank, 2 * 1024 for each adapted 1024x1024 layer and 1024 + 4096 for
\* each adapted feed-forward layer, over 24 encoder layers (and the pooler)
LoraNumel(cfg) ==
    IF cfg.target_modules = "query_value" THEN cfg.r * 98304
    ELSE cfg.r * 444416

\* modules wrapped as trainable copies: modules_to_save of the configuration
\* and, for a sequence-classification task, the classifier head
ModulesToSave(cfg) ==
    cfg.modules_to_save
      \cup (IF cfg.task_type = "SEQ_CLS" THEN {"classifier", "score"} ELSE {})

\* get_peft_model(model, cfg): freezes the parameters of the wrapped model
\* (biases stay trainable under bias = "all"), adds the trainable adapter
\* matrices, and for each module to save makes the module trainable and
\* adds a trainable copy of it
get_peft_model(m, cfg) ==
    LET frozen == [i \in 1..Len(m.params) |->
                     [m.params[i] EXCEPT !.requires_grad =
                        IF m.params[i].name \in ModulesToSave(cfg) THEN TRUE
                        ELSE (cfg.bias = "all" /\ m.params[i].is_bias
                                /\ ~ m.params[i].is_4bit)]]
        lora == << [name |-> "lora", numel |-> LoraNumel(cfg),
                    requires_grad |-> TRUE, is_4bit |-> FALSE,
                    is_bias |-> FALSE] >>
        saved == SelectSeq(m.params, LAMBDA q : q.name \in ModulesToSave(cfg))
        copies == [i \in 1..Len(saved) |->
                     [saved[i] EXCEPT !.name = "modules_to_save",
                                      !.requires_grad = TRUE]]
    IN [m EXCEPT !.params = frozen \o lora \o copies,
                 !.peft_config = Some(cfg)]

\* PeftModel.print_trainable_parameters: counts a 4-bit parameter twice
\* (two weights per stored element).  The percentage is printed as the
\* unrounded float 100 * trainable_params / all_param (0.35378695964228607
\* for 1,189,898 of 336,331,786); the record holds it as that quotient,
\* percent = 100 * num / den, and the division fails for an empty model.
peft_print_trainable_parameters(m) ==
    LET unpacked == [i \in 1..Len(m.params) |->
                       [m.params[i] EXCEPT !.numel =
                          IF m.params[i].is_4bit THEN 2 * m.params[i].numel
                          ELSE m.params[i].numel]]
        c == CountParameters(unpacked)
    IN [raised |-> IF c.all_param = 0 THEN "ZeroDivisionError" ELSE "none",
        trainable_params |-> c.trainable_params,
        all_param |-> c.all_param,
        percent |-> [num |-> c.trainable_params, den |-> c.all_param]]

\* ------------------------------------------------------------------------
\* TrainingArguments, Trainer and the callbacks
\* ------------------------------------------------------------------------
\* TrainingArguments(...) of each notebook after its __post_init__:
\* eval_steps defaults to logging_steps; load_best_model_at_end without
\* metric_for_best_model selects "loss"; greater_is_better is false exactly
\* for the loss
TrainingArguments(nb) ==
    [per_device_train_batch_size |-> 8,
     per_device_eval_batch_size |-> 8,
     gradient_accumulation_steps |-> IF nb = "qlora" THEN 8 ELSE 1,
     output_dir |-> ArgsOutputDir(nb),
     num_train_epochs |-> IF nb = "bert" THEN 10
                          ELSE IF nb = "qlora" THEN 8 ELSE 1,
     evaluation_strategy |-> "steps",
     save_steps |-> 10,
     save_total_limit |-> IF nb = "bert" THEN 4
                          ELSE IF nb = "qlora" THEN 5 ELSE 2,
     logging_steps |-> 10,
     eval_steps |-> 10,
     load_best_model_at_end |-> TRUE,
     metric_for_best_model |-> IF nb = "draft" THEN "loss" ELSE "accuracy",
     greater_is_better |-> (nb # "draft"),
     optim |-> IF nb = "qlora" THEN "paged_adamw_8bit" ELSE "adamw_torch"]

\* EarlyStoppingCallback(early_stopping_patience=2)
early_stopping_patience == 2

\* a bug: the draft's evaluation receives the labels and reports a loss
MutTrainerDraftEvalHasLabels(nb, dd) ==
    [args |-> TrainingArguments(nb),
     train_dataset |-> dd.train,
     eval_dataset |-> dd.test,
     early_stopping |-> (nb # "draft"),
     eval_has_labels |-> TRUE,
     wandb_in_metrics |-> (nb # "draft")]

\* Trainer(model, args, train_dataset, eval_dataset, compute_metrics,
\* callbacks): the draft passes no callbacks
Trainer(nb, dd) ==
    [args |-> TrainingArguments(nb),
     train_dataset |-> dd.train,
     eval_dataset |-> dd.test,
     early_stopping |-> (nb # "draft"),
     \* the draft's wrapped model is evaluated without labels: no loss and
     \* no call of compute_metrics
     eval_has_labels |-> (nb # "draft"),
     wandb_in_metrics |-> (nb # "draft")]

\* len(train_dataloader)
LenDataloader(t) ==
    CeilDiv(t.train_dataset.num_rows, t.args.per_device_train_batch_size)

\* max_steps computed by trainer.train() from the number of epochs
MaxSteps(t) ==
    t.args.num_train_epochs
      * Max(LenDataloader(t) \div t.args.gradient_accumulation_steps, 1)

\* a bug: checkpoints are selected by a metric compute_metrics does not return
MutMetricToCheckF1(args) == "f1"

\* key looked up in the evaluation metrics for checkpoint selection
MetricToCheck(args) == args.metric_for_best_model

\* operator(metric_value, best_metric): np.greater or np.less
Improves(args, v, best) ==
    IF args.greater_is_better THEN FracGreater(v, best) ELSE FracGreater(best, v)

\* DefaultFlowCallback.on_step_end for the given global_step
on_step_end(args, max_steps, global_step, ctl) ==
    [should_log |-> global_step % args.logging_steps = 0,
     should_evaluate |-> global_step % args.eval_steps = 0,
     should_save |-> global_step % args.save_steps = 0,
     should_training_stop |->
         ctl.should_training_stop \/ global_step >= max_steps]

\* a bug: an evaluation that only equals the best metric resets the counter
MutCheckMetricValueNonStrict(args, best_metric, metric_value, counter) ==
    IF best_metric = None \/ ~ Improves(args, best_metric[1], metric_value)
    THEN 0
    ELSE counter + 1

\* EarlyStoppingCallback.check_metric_value: the new value of
\* early_stopping_patience_counter
check_metric_value(args, best_metric, metric_value, counter) ==
    IF best_metric = None \/ Improves(args, metric_value, best_metric[1])
    THEN 0
    ELSE counter + 1

\* EarlyStoppingCallback.on_evaluate: new counter and stop flag; a missing
\* metric leaves both unchanged
on_evaluate(t, best_metric, metrics, counter, ctl) ==
    IF ~ t.early_stopping \/ MetricToCheck(t.args) \notin DOMAIN metrics
    THEN [counter |-> counter, should_training_stop |-> ctl.should_training_stop]
    ELSE LET c == check_metric_value(t.args, best_metric,
                                     metrics[MetricToCheck(t.args)], counter)
         IN [counter |-> c,
             should_training_stop |->
                 ctl.should_training_stop \/ c >= early_stopping_patience]

RECURSIVE SortedSeq(_)
\* the elements of a finite set of numbers in increasing order
SortedSeq(S) ==
    IF S = {} THEN << >>
    ELSE LET m == CHOOSE x \in S : \A y \in S : x <= y
         IN << m >> \o SortedSeq(S \ {m})

RECURSIVE BubbleBest(_, _, _)
\* for i in range(best_model_index, len - 2): swap entries i and i + 1
\* (positions here are 1-based: i runs from the best's position to len - 2)
BubbleBest(cs, i, last) ==
    IF i > last THEN cs
    ELSE BubbleBest([cs EXCEPT ![i] = cs[i + 1], ![i + 1] = cs[i]], i + 1, last)

\* Trainer._sorted_checkpoints: the checkpoints of the output directory,
\* oldest first, with the best checkpoint moved away from the front
_sorted_checkpoints(dir, best) ==
    LET cs == SortedSeq(dir)
    IN IF best = None \/ best[1] \notin dir THEN cs
       ELSE LET bi == CHOOSE i \in 1..Len(cs) : cs[i] = best[1]
            IN BubbleBest(cs, bi, Len(cs) - 2)

\* a bug: old checkpoints are never deleted
MutRotateKeepsAll(args, dir, best) == dir

\* Trainer._rotate_checkpoints: the output directory after deleting the
\* oldest checkpoints beyond save_total_limit
_rotate_checkpoints(args, dir, best) ==
    LET cs == _sorted_checkpoints(dir, best)
        limit == IF best # None /\ args.save_total_limit = 1
                    /\ cs[Len(cs)] # best[1]
                 THEN 2 ELSE args.save_total_limit
        ndel == Max(0, Len(cs) - limit)
    IN IF Len(cs) <= args.save_total_limit THEN dir
       ELSE dir \ {cs[i] : i \in 1..ndel}

\* logits of the evaluation split from a classifier with num_labels
\* outputs: example i gets the one-hot row of its label when right[i], of
\* the next class otherwise
EvalLogits(num_labels, labels, right) ==
    [i \in 1..Len(labels) |->
        [c \in 1..num_labels |->
            IF c - 1 = (IF right[i] THEN labels[i]
                        ELSE (labels[i] + 1) % num_labels)
            THEN 1 ELSE 0]]

\* the EvalPrediction the evaluation loop hands to compute_metrics: the
\* logits of model m on the evaluation split and the labels of the split
EvalPrediction(t, m, right) ==
    [predictions |-> EvalLogits(m.num_labels, t.eval_dataset.label, right),
     label_ids |-> t.eval_dataset.label]

\* Trainer.evaluate: the metrics dictionary of one evaluation.  With labels
\* the loss and compute_metrics(ep) are reported under the eval_ prefix
\* (looked up here without the prefix); without labels only the runtime.
Evaluate(t, ep, loss) ==
    IF t.eval_has_labels
    THEN LET cm == compute_metrics(ep)
         IN [k \in {"loss"} \cup DOMAIN cm |->
                IF k = "loss" THEN loss ELSE cm[k]]
    ELSE [k \in {"runtime"} |-> loss]

\* values the evaluation loss is drawn from
LossValues == {[num |-> 1, den |-> 2], [num |-> 3, den |-> 2]}

\* a bug: a metric missing from the evaluation is skipped silently
MutSaveCheckpointIgnoresMissing(args, st, dir, m) ==
    [raised |-> "none", state |-> st, output_dir |-> dir \cup {st.global_step}]

\* Trainer._save_checkpoint(metrics) at state st, up to its last statement:
\* writes checkpoint-<step> (replacing a directory of that name), then looks
\* the selection metric up (KeyError when it is absent) and records a new
\* best metric and checkpoint.  Its last statement, the call of
\* _rotate_checkpoints, is the step RotateCheckpoints.
_save_checkpoint(args, st, dir, m) ==
    LET written == dir \cup {st.global_step}
        key == MetricToCheck(args)
    IN IF m = None
       THEN [raised |-> "none", state |-> st, output_dir |-> written]
       ELSE IF key \notin DOMAIN m[1]
       THEN [raised |-> "KeyError", state |-> st, output_dir |-> written]
       ELSE LET metric_value == m[1][key]
                st2 == IF st.best_metric = None
                          \/ st.best_model_checkpoint = None
                          \/ Improves(args, metric_value, st.best_metric[1])
                       THEN [st EXCEPT !.best_metric = Some(metric_value),
                                       !.best_model_checkpoint = Some(st.global_step)]
                       ELSE st
            IN [raised |-> "none", state |-> st2, output_dir |-> written]

\* the evaluation history before the first evaluation
NoEvaluations == [count |-> 0, max |-> None, argmax |-> {}, streak |-> 0]

\* the evaluation history after one more evaluation at optimizer step
\* `step`: the number of evaluations, the largest accuracy reported, the
\* steps that reported it, and the number of evaluations since the last one
\* that exceeded every earlier accuracy (acc is None when the evaluation
\* reports no accuracy)
RecordEvaluation(h, step, acc) ==
    IF acc = None THEN [h EXCEPT !.count = @ + 1]
    ELSE IF h.max = None \/ FracGreater(acc[1], h.max[1])
    THEN [count |-> h.count + 1, max |-> acc, argmax |-> {step}, streak |-> 0]
    ELSE IF FracEqual(acc[1], h.max[1])
    THEN [h EXCEPT !.count = @ + 1, !.argmax = @ \cup {step}, !.streak = @ + 1]
    ELSE [h EXCEPT !.count = @ + 1, !.streak = @ + 1]

\* ------------------------------------------------------------------------
\* State
\* ------------------------------------------------------------------------
VARIABLES
    notebook,       \* which notebook is running
    pc,             \* index in Script(notebook) of the next statement
    tpc,            \* position inside trainer.train(), "idle" outside
    raised,         \* exception that ended the run, "none" if none
    ran,            \* how many times each statement has been started
    done,           \* statements that have returned normally
    tokenized_dataset, \* contents of ../tokenized_dataset on disk
    dataset_dict,   \* the loaded DatasetDict (None before loading)
    model,          \* the object bound to `model` (None before loading)
    printed,        \* lines printed by the parameter counters
    trainer,        \* the Trainer object (None before construction)
    state,          \* trainer.state
    control,        \* trainer.control
    loop,           \* epoch, step and total_batched_samples of the loop
    early_stopping_patience_counter,
    output_dir,     \* steps of the checkpoint-<step> directories this run
                    \* wrote into args.output_dir and that are still there
    stale_checkpoints, \* steps of the checkpoint-<step> directories in
                    \* args.output_dir that earlier runs left there
    best_model_dir, \* weights saved under <output_dir>/best_model
    wandb_summary,  \* the accuracy last sent to wandb.log (None before)
    eval_history,   \* summary of the evaluations of the run so far
    metrics,        \* metrics of the evaluation of the current step
    p,              \* EvalPrediction handed to compute_metrics (None outside)
    preds,          \* preds computed by compute_metrics from p (None outside)
    result          \* value returned by that call

vars == << notebook, pc, tpc, raised, ran, done, tokenized_dataset,
           dataset_dict, model, printed, trainer, state, control, loop,
           early_stopping_patience_counter, output_dir, stale_checkpoints,
           best_model_dir, wandb_summary, eval_history, metrics, p, preds,
           result >>

InitialState ==
    [global_step |-> 0, epoch |-> 0, max_steps |-> 0,
     best_metric |-> None, best_model_checkpoint |-> None]

InitialControl ==
    [should_log |-> FALSE, should_evaluate |-> FALSE,
     should_save |-> FALSE, should_training_stop |-> FALSE]

InitialLoop == [epoch |-> 0, step |-> 0, total_batched_samples |-> 0]

\* checkpoint-<step> directories an earlier run may have left in
\* args.output_dir, which no notebook clears: the first checkpoint of a run
\* and checkpoints numbered past the end of this run
StaleSteps == {10} \cup {1000 + 10 * k : k \in 1..MaxStale}

\* the checkpoint-<step> directories in args.output_dir
CheckpointDir == output_dir \cup stale_checkpoints

\* a fresh kernel about to run the first cell of one of the notebooks; the
\* output directory holds what earlier runs left
Fresh(nb) ==
    /\ notebook = nb
    /\ pc = 1
    /\ tpc = "idle"
    /\ raised = "none"
    /\ ran = [s \in Statements |-> 0]
    /\ done = {}
    /\ tokenized_dataset = TokenizedDataset
    /\ dataset_dict = None
    /\ model = None
    /\ printed = << >>
    /\ trainer = None
    /\ state = InitialState
    /\ control = InitialControl
    /\ loop = InitialLoop
    /\ early_stopping_patience_counter = 0
    /\ output_dir = {}
    /\ stale_checkpoints \in SUBSET StaleSteps
    /\ best_model_dir = None
    /\ wandb_summary = None
    /\ eval_history = NoEvaluations
    /\ metrics = None
    /\ p = None
    /\ preds = None
    /\ result = None

Init == \E nb \in Notebooks : Fresh(nb)

\* the fields of a fresh kernel other than notebook, model and p
FreshKernel ==
    /\ pc = 1
    /\ tpc = "idle"
    /\ raised = "none"
    /\ ran = [s \in Statements |-> 0]
    /\ done = {}
    /\ tokenized_dataset = TokenizedDataset
    /\ dataset_dict = None
    /\ printed = << >>
    /\ trainer = None
    /\ state = InitialState
    /\ control = InitialControl
    /\ loop = InitialLoop
    /\ early_stopping_patience_counter = 0
    /\ output_dir = {}
    /\ stale_checkpoints = {}
    /\ best_model_dir = None
    /\ wandb_summary = None
    /\ eval_history = NoEvaluations
    /\ metrics = None
    /\ preds = None
    /\ result = None

\* the statement about to run, "end" after the last one or after an error
Stmt ==
    IF raised = "none" /\ pc <= Len(Script(notebook)) /\ tpc = "idle"
    THEN Script(notebook)[pc] ELSE "end"

\* bookkeeping of a statement that starts and returns normally
Returns(s) ==
    /\ ran' = [ran EXCEPT ![s] = @ + 1]
    /\ done' = done \cup {s}
    /\ pc' = pc + 1

\* ------------------------------------------------------------------------
\* Notebook statements
\* ------------------------------------------------------------------------
\* dataset_dict = load_from_disk("../tokenized_dataset")
LoadFromDisk ==
    /\ Stmt = "load_from_disk"
    /\ dataset_dict' = Some(tokenized_dataset)
    /\ Returns("load_from_disk")
    /\ UNCHANGED << notebook, tpc, raised, tokenized_dataset, model, printed,
                    trainer, state, control, loop,
                    early_stopping_patience_counter, output_dir,
                    stale_checkpoints,
                    best_model_dir, wandb_summary, eval_history, metrics, p, preds,
                    result >>

\* model = ...ForSequenceClassification.from_pretrained(..., num_labels=5)
LoadModel ==
    /\ Stmt = "from_pretrained"
    /\ model' = Some(FromPretrained(notebook))
    /\ Returns("from_pretrained")
    /\ UNCHANGED << notebook, tpc, raised, tokenized_dataset, dataset_dict,
                    printed, trainer, state, control, loop,
                    early_stopping_patience_counter, output_dir,
                    stale_checkpoints,
                    best_model_dir, wandb_summary, eval_history, metrics, p, preds,
                    result >>

\* print_trainable_parameters(model)
PrintTrainable ==
    /\ Stmt = "print_trainable_parameters"
    /\ model # None
    /\ LET out == print_trainable_parameters(model[1])
       IN IF out.raised = "none"
          THEN /\ printed' = Append(printed, out)
               /\ Returns("print_trainable_parameters")
               /\ raised' = raised
          ELSE /\ raised' = out.raised
               /\ ran' = [ran EXCEPT !["print_trainable_parameters"] = @ + 1]
               /\ UNCHANGED << printed, done, pc >>
    /\ UNCHANGED << notebook, tpc, tokenized_dataset, dataset_dict, model,
                    trainer, state, control, loop,
                    early_stopping_patience_counter, output_dir,
                    stale_checkpoints,
                    best_model_dir, wandb_summary, eval_history, metrics, p, preds,
                    result >>

\* model = prepare_model_for_kbit_training(model)
PrepareKbit ==
    /\ Stmt = "prepare_model_for_kbit_training"
    /\ model # None
    /\ model' = Some(prepare_model_for_kbit_training(model[1]))
    /\ Returns("prepare_model_for_kbit_training")
    /\ UNCHANGED << notebook, tpc, raised, tokenized_dataset, dataset_dict,
                    printed, trainer, state, control, loop,
                    early_stopping_patience_counter, output_dir,
                    stale_checkpoints,
                    best_model_dir, wandb_summary, eval_history, metrics, p, preds,
                    result >>

\* model = get_peft_model(model, peft_config)
WrapPeft ==
    /\ Stmt = "get_peft_model"
    /\ model # None
    /\ model' = Some(get_peft_model(model[1], peft_config(notebook)))
    /\ Returns("get_peft_model")
    /\ UNCHANGED << notebook, tpc, raised, tokenized_dataset, dataset_dict,
                    printed, trainer, state, control, loop,
                    early_stopping_patience_counter, output_dir,
                    stale_checkpoints,
                    best_model_dir, wandb_summary, eval_history, metrics, p, preds,
                    result >>

\* model.print_trainable_parameters()
PeftPrint ==
    /\ Stmt = "peft_print_trainable_parameters"
    /\ model # None
    /\ LET out == peft_print_trainable_parameters(model[1])
       IN IF out.raised = "none"
          THEN /\ printed' = Append(printed, out)
               /\ Returns("peft_print_trainable_parameters")
               /\ raised' = raised
          ELSE /\ raised' = out.raised
               /\ ran' = [ran EXCEPT
                            !["peft_print_trainable_parameters"] = @ + 1]
               /\ UNCHANGED << printed, done, pc >>
    /\ UNCHANGED << notebook, tpc, tokenized_dataset, dataset_dict,
                    model, trainer, state, control, loop,
                    early_stopping_patience_counter, output_dir,
                    stale_checkpoints,
                    best_model_dir, wandb_summary, eval_history, metrics, p, preds,
                    result >>

\* training_args = TrainingArguments(...); trainer = Trainer(...)
ConstructTrainer ==
    /\ Stmt = "Trainer"
    /\ model # None /\ dataset_dict # None
    /\ trainer' = Some(Trainer(notebook, dataset_dict[1]))
    /\ Returns("Trainer")
    /\ UNCHANGED << notebook, tpc, raised, tokenized_dataset, dataset_dict,
                    model, printed, state, control, loop,
                    early_stopping_patience_counter, output_dir,
                    stale_checkpoints,
                    best_model_dir, wandb_summary, eval_history, metrics, p, preds,
                    result >>

\* model.save_pretrained(model_path) with model_path <output_dir>/best_model
SavePretrained ==
    /\ Stmt = "save_pretrained"
    /\ model # None
    /\ best_model_dir' = Some(model[1].weights)
    /\ tokenized_dataset' = WriteFiles(model_path(notebook), tokenized_dataset)
    /\ Returns("save_pretrained")
    /\ UNCHANGED << notebook, tpc, raised, dataset_dict,
                    model, printed, trainer, state, control, loop,
                    early_stopping_patience_counter, output_dir,
                    stale_checkpoints,
                    wandb_summary, eval_history, metrics, p, preds,
                    result >>

\* ------------------------------------------------------------------------
\* trainer.train()
\* ------------------------------------------------------------------------
\* the call of trainer.train(): max_steps is fixed and the loop is entered
TrainBegin ==
    /\ Stmt = "train"
    /\ trainer # None /\ model # None
    /\ ran' = [ran EXCEPT !["train"] = @ + 1]
    /\ tpc' = "inner_loop"
    /\ state' = [InitialState EXCEPT !.max_steps = MaxSteps(trainer[1])]
    /\ control' = InitialControl
    /\ loop' = InitialLoop
    /\ UNCHANGED << notebook, pc, raised, done, tokenized_dataset,
                    dataset_dict, model, printed, trainer,
                    early_stopping_patience_counter, output_dir,
                    stale_checkpoints,
                    best_model_dir, wandb_summary, eval_history, metrics, p, preds,
                    result >>

\* the optimizer runs after this batch: every gradient_accumulation_steps
\* batches counted over the whole run, or on the last batch of an epoch that
\* is no longer than gradient_accumulation_steps
SyncStep(t, lp) ==
    \/ (lp.total_batched_samples + 1) % t.args.gradient_accumulation_steps = 0
    \/ /\ LenDataloader(t) <= t.args.gradient_accumulation_steps
       /\ lp.step + 1 = LenDataloader(t)

\* one iteration of the inner loop: training_step on the next batch and,
\* when the gradients are synchronised, the optimizer step and on_step_end
TrainingStep ==
    /\ raised = "none" /\ tpc = "inner_loop"
    /\ loop.step < LenDataloader(trainer[1])
    /\ loop' = [loop EXCEPT !.step = @ + 1, !.total_batched_samples = @ + 1]
    /\ metrics' = None
    /\ p' = None
    /\ preds' = None
    /\ IF SyncStep(trainer[1], loop)
       THEN /\ state' = [state EXCEPT
                  !.global_step = @ + 1,
                  !.epoch = loop.epoch * LenDataloader(trainer[1]) + loop.step + 1]
            /\ model' = Some([model[1] EXCEPT !.weights = state.global_step + 1])
            /\ control' = on_step_end(trainer[1].args, state.max_steps,
                                      state.global_step + 1, control)
            /\ tpc' = "maybe_log_save_evaluate"
       ELSE /\ UNCHANGED << state, model, control, tpc >>
    /\ UNCHANGED << notebook, pc, raised, ran, done, tokenized_dataset,
                    dataset_dict, printed, trainer,
                    early_stopping_patience_counter, output_dir,
                    stale_checkpoints,
                    best_model_dir, wandb_summary, eval_history, result >>

\* Trainer._maybe_log_save_evaluate after an optimizer step, up to the
\* rotation of the checkpoints: evaluate (compute_metrics and the callbacks'
\* on_evaluate), then _save_checkpoint writes the checkpoint and updates the
\* best metric; without a save the inner loop is left if training is to stop
MaybeLogSaveEvaluate ==
    /\ raised = "none" /\ tpc = "maybe_log_save_evaluate"
    /\ \E right \in [1..EvalSize -> BOOLEAN], loss \in LossValues :
         \* the inputs only matter when an evaluation runs
         /\ control.should_evaluate
               \/ (loss = [num |-> 1, den |-> 2] /\ \A i \in 1..EvalSize : right[i])
         /\ LET t  == trainer[1]
                ep == EvalPrediction(t, model[1], right)
                m  == IF control.should_evaluate
                      THEN Some(Evaluate(t, ep, loss)) ELSE None
                es == IF m = None
                      THEN [counter |-> early_stopping_patience_counter,
                            should_training_stop |-> control.should_training_stop]
                      ELSE on_evaluate(t, state.best_metric, m[1],
                                       early_stopping_patience_counter, control)
                sv == IF control.should_save
                      THEN _save_checkpoint(t.args, state, CheckpointDir, m)
                      ELSE [raised |-> "none", state |-> state,
                            output_dir |-> CheckpointDir]
            IN /\ metrics' = m
               /\ p' = IF control.should_evaluate /\ t.eval_has_labels
                       THEN Some(ep) ELSE None
               /\ preds' = IF control.should_evaluate /\ t.eval_has_labels
                           THEN Some(Argmax(ep.predictions)) ELSE None
               /\ wandb_summary' = IF m # None /\ t.wandb_in_metrics
                                   THEN Some(m[1]["accuracy"])
                                   ELSE wandb_summary
               /\ eval_history' =
                    IF m = None THEN eval_history
                    ELSE RecordEvaluation(eval_history, state.global_step,
                            IF "accuracy" \in DOMAIN m[1]
                            THEN Some(m[1]["accuracy"]) ELSE None)
               /\ early_stopping_patience_counter' = es.counter
               \* the checkpoint written belongs to this run, also when it
               \* replaces one an earlier run left
               /\ stale_checkpoints' =
                    IF control.should_save
                    THEN stale_checkpoints \ {state.global_step}
                    ELSE stale_checkpoints
               /\ output_dir' = sv.output_dir \ stale_checkpoints'
               /\ tokenized_dataset' =
                    IF control.should_save
                    THEN WriteFiles(t.args.output_dir, tokenized_dataset)
                    ELSE tokenized_dataset
               /\ state' = sv.state
               /\ raised' = sv.raised
               \* on_log and on_evaluate clear their flags; on_save, which
               \* clears should_save, runs after _save_checkpoint returned
               /\ control' = [should_log |-> FALSE, should_evaluate |-> FALSE,
                              should_save |-> control.should_save,
                              should_training_stop |-> es.should_training_stop]
               /\ tpc' = IF sv.raised # "none" THEN tpc
                         ELSE IF control.should_save THEN "rotate_checkpoints"
                         ELSE IF es.should_training_stop THEN "epoch_end"
                         ELSE "inner_loop"
    /\ UNCHANGED << notebook, pc, ran, done, dataset_dict,
                    model, printed, trainer, loop, best_model_dir, result >>

\* the end of _save_checkpoint and of _maybe_log_save_evaluate: the call of
\* _rotate_checkpoints deletes the oldest checkpoints beyond
\* save_total_limit, on_save clears should_save, and the inner loop is left
\* if training is to stop
RotateCheckpoints ==
    /\ raised = "none" /\ tpc = "rotate_checkpoints"
    /\ LET kept == _rotate_checkpoints(trainer[1].args, CheckpointDir,
                                       state.best_model_checkpoint)
       IN /\ output_dir' = output_dir \cap kept
          /\ stale_checkpoints' = stale_checkpoints \cap kept
    /\ control' = [control EXCEPT !.should_save = FALSE]
    /\ tpc' = IF control.should_training_stop THEN "epoch_end"
              ELSE "inner_loop"
    /\ UNCHANGED << notebook, pc, raised, ran, done, tokenized_dataset,
                    dataset_dict, model, printed, trainer, state, loop,
                    early_stopping_patience_counter, best_model_dir,
                    wandb_summary, eval_history, metrics, p, preds, result >>

\* the end of an epoch: reached when the batches are exhausted or the inner
\* loop was left; training goes on with the next epoch unless it is to stop
\* or the epochs are used up
EpochEnd ==
    /\ raised = "none"
    /\ \/ tpc = "epoch_end"
       \/ tpc = "inner_loop" /\ loop.step >= LenDataloader(trainer[1])
    /\ IF control.should_training_stop
          \/ loop.epoch + 1 >= trainer[1].args.num_train_epochs
       THEN /\ tpc' = "train_end"
            /\ loop' = loop
       ELSE /\ tpc' = "inner_loop"
            /\ loop' = [loop EXCEPT !.epoch = @ + 1, !.step = 0]
    /\ UNCHANGED << notebook, pc, raised, ran, done, tokenized_dataset,
                    dataset_dict, model, printed, trainer, state, control,
                    early_stopping_patience_counter, output_dir,
                    stale_checkpoints,
                    best_model_dir, wandb_summary, eval_history, metrics, p, preds,
                    result >>

\* a bug: the best checkpoint is never loaded back
MutLoadBestModelSkipped(args, st, dir, m) == m

\* Trainer._load_best_model: the weights of the best checkpoint are loaded
\* into the model when load_best_model_at_end is set, a best checkpoint was
\* recorded and its directory still exists (otherwise a warning only)
_load_best_model(args, st, dir, m) ==
    IF args.load_best_model_at_end /\ st.best_model_checkpoint # None
          /\ st.best_model_checkpoint[1] \in dir
    THEN [m EXCEPT !.weights = st.best_model_checkpoint[1]]
    ELSE m

\* the end of trainer.train(): the best model is loaded and the call returns
TrainEnd ==
    /\ raised = "none" /\ tpc = "train_end"
    /\ model' = Some(_load_best_model(trainer[1].args, state, CheckpointDir,
                                       model[1]))
    /\ tpc' = "idle"
    /\ done' = done \cup {"train"}
    /\ pc' = pc + 1
    /\ UNCHANGED << notebook, raised, ran, tokenized_dataset, dataset_dict,
                    printed, trainer, state, control, loop,
                    early_stopping_patience_counter, output_dir,
                    stale_checkpoints,
                    best_model_dir, wandb_summary, eval_history, metrics, p, preds,
                    result >>

\* ------------------------------------------------------------------------
\* Specification of the notebooks
\* ------------------------------------------------------------------------
Next ==
    \/ LoadFromDisk
    \/ LoadModel
    \/ PrintTrainable
    \/ PrepareKbit
    \/ WrapPeft
    \/ PeftPrint
    \/ ConstructTrainer
    \/ TrainBegin
    \/ TrainingStep
    \/ MaybeLogSaveEvaluate
    \/ RotateCheckpoints
    \/ EpochEnd
    \/ TrainEnd
    \/ SavePretrained

Spec == Init /\ [][Next]_vars

\* ------------------------------------------------------------------------
\* Specification of print_trainable_parameters on arbitrary models
\* ------------------------------------------------------------------------
\* models of up to MaxParams parameters of 0..MaxNumel elements each
ParameterLists ==
    UNION {[1..n -> [name : {"param"}, numel : 0..MaxNumel,
                     requires_grad : BOOLEAN, is_4bit : {FALSE},
                     is_bias : {FALSE}]] : n \in 0..MaxParams}

InitParams ==
    /\ notebook = "call print_trainable_parameters"
    /\ \E ps \in ParameterLists :
          model = Some([params |-> ps, num_labels |-> NumLabels,
                        quantization_config |-> None, peft_config |-> None,
                        weights |-> 0])
    /\ p = None
    /\ FreshKernel

NextParams == PrintTrainable

SpecParams == InitParams /\ [][NextParams]_vars

\* ------------------------------------------------------------------------
\* Specification of compute_metrics on arbitrary predictions
\* ------------------------------------------------------------------------
\* rows of logits over the five classes: entries 0 or 1, at most two of
\* them 1 (rows with one largest entry, with two tied, and with all tied)
LogitRows ==
    {r \in [1..NumLabels -> {0, 1}] :
        Cardinality({c \in 1..NumLabels : r[c] # 0}) <= 2}

\* EvalPrediction objects of up to MaxExamples examples.  compute_metrics
\* validates nothing: the labels range over the five classes and one value
\* that is no class of the model
EvalPredictions ==
    UNION {[predictions : [1..n -> LogitRows],
            label_ids : [1..n -> 0..NumLabels]] : n \in 0..MaxExamples}

InitMetrics ==
    /\ notebook = "call compute_metrics"
    /\ model = None
    /\ \E ep \in EvalPredictions : p = Some(ep)
    /\ FreshKernel

\* compute_metrics(p) of the BERT and final QLoRA notebooks: the accuracy is
\* sent to wandb.log and returned
ComputeMetrics ==
    /\ Stmt = "compute_metrics"
    /\ p # None
    /\ LET out == compute_metrics(p[1])
       IN /\ wandb_summary' = Some(out.accuracy)
          /\ preds' = Some(Argmax(p[1].predictions))
          /\ result' = Some(out)
    /\ Returns("compute_metrics")
    /\ UNCHANGED << notebook, tpc, raised, tokenized_dataset, dataset_dict,
                    model, printed, trainer, state, control, loop,
                    early_stopping_patience_counter, output_dir,
                    stale_checkpoints,
                    best_model_dir, eval_history, metrics, p >>

NextMetrics == ComputeMetrics

SpecMetrics == InitMetrics /\ [][NextMetrics]_vars

\* ========================================================================
\* Properties
\* ========================================================================
\* the steps of the pipeline, in the order of the linear script
PipelineSteps ==
    << "load_from_disk", "from_pretrained", "get_peft_model", "Trainer",
       "train", "save_pretrained" >>

\* position of the statement "train" in the running notebook
TrainIndex == CHOOSE i \in 1..Len(Script(notebook)) : Script(notebook)[i] = "train"

\* C1: the pipeline steps run at most once each and in the order load the
\* dataset, instantiate the model, (QLoRA only) wrap it with the adapter,
\* construct the Trainer, train, save the best model: a step has started
\* only if every earlier step of the notebook has returned; in particular
\* save_pretrained has run only if trainer.train() returned normally, and
\* trainer.train() only if the dataset and the model were loaded.
C1_LinearPipeline ==
    notebook \in Notebooks =>
      /\ \A i \in 1..Len(PipelineSteps) : ran[PipelineSteps[i]] <= 1
      /\ \A i, j \in 1..Len(PipelineSteps) :
            (i < j /\ ran[PipelineSteps[j]] >= 1
                   /\ \E k \in 1..Len(Script(notebook)) :
                         Script(notebook)[k] = PipelineSteps[i])
               => PipelineSteps[i] \in done
      /\ notebook = "bert" => ran["get_peft_model"] = 0
      /\ ran["save_pretrained"] >= 1 => ("train" \in done /\ raised = "none")
      /\ ran["train"] >= 1 => (dataset_dict # None /\ model # None)

\* C1 witness: the final QLoRA notebook has run all six steps
C1_Witness ==
    /\ notebook = "qlora"
    /\ \A i \in 1..Len(PipelineSteps) : ran[PipelineSteps[i]] = 1
    /\ best_model_dir # None

\* C2: once training has ended, the weights held by `model`, and the weights
\* written to the best_model directory, are those of an evaluated checkpoint
\* whose accuracy is the highest among all evaluations of the run (not
\* simply those of the last training step).
C2_BestModelSaved ==
    (notebook \in {"bert", "qlora"} /\ "train" \in done) =>
      /\ model[1].weights \in eval_history.argmax
      /\ best_model_dir # None => best_model_dir[1] \in eval_history.argmax

\* C2 witness: a run that reached its last step without early stopping saved
\* weights that are not those of the last optimizer step
C2_Witness ==
    /\ notebook = "qlora"
    /\ best_model_dir # None
    /\ state.global_step = state.max_steps
    /\ best_model_dir[1] # state.global_step
    /\ eval_history.count >= 2

\* C3: with EarlyStoppingCallback(early_stopping_patience=2) the counter of
\* the callback is the number of consecutive evaluations that did not
\* strictly exceed the best accuracy seen before them (0 after every strictly
\* improving evaluation); training is stopped at the first evaluation where
\* that number reaches 2 (no optimizer step follows it), and before the last
\* step the stop flag is never set while the number is below 2.
C3_EarlyStopping ==
    (notebook \in {"bert", "qlora"} /\ trainer # None) =>
      /\ early_stopping_patience_counter = eval_history.streak
      /\ eval_history.streak <= early_stopping_patience
      /\ eval_history.streak >= early_stopping_patience =>
            /\ control.should_training_stop
            /\ state.global_step = eval_history.count * trainer[1].args.eval_steps
      /\ (control.should_training_stop /\ state.global_step < state.max_steps)
            => eval_history.streak >= early_stopping_patience

\* C3 witness: the BERT run was stopped by the callback before its last step
C3_Witness ==
    /\ notebook = "bert"
    /\ "train" \in done
    /\ state.global_step < state.max_steps
    /\ eval_history.streak = early_stopping_patience
    /\ eval_history.count >= 4

\* C4: when a checkpoint is saved after an evaluation whose metrics lack the
\* selection metric, trainer.train() ends with an uncaught KeyError; and after
\* that exception the training call was made once only, no optimizer step
\* has run beyond the failing one, trainer.train() has not returned and no
\* best model was saved.
C4_MissingMetricFails ==
    /\ (trainer # None /\ metrics # None
           /\ MetricToCheck(trainer[1].args) \notin DOMAIN metrics[1]
           /\ state.global_step \in output_dir)
         => raised = "KeyError"
    /\ raised = "KeyError" =>
         /\ notebook = "draft"
         /\ ran["train"] = 1
         /\ "train" \notin done
         /\ pc = TrainIndex
         /\ tpc = "maybe_log_save_evaluate"
         /\ state.global_step = eval_history.count * trainer[1].args.save_steps
         /\ loop.total_batched_samples = state.global_step
         /\ best_model_dir = None
         /\ ran["save_pretrained"] = 0

\* C4 witness: the draft run has failed at its first checkpoint
C4_Witness ==
    /\ notebook = "draft"
    /\ raised = "KeyError"
    /\ eval_history.count = 1
    /\ output_dir # {}

\* C5 (as claimed): a run with num_train_epochs = N that is not stopped early
\* has processed every training batch N times when trainer.train() returns,
\* i.e. N times the number of batches of an epoch (8 x 100 for QLoRA).
C5_EveryBatchEveryEpoch ==
    (notebook \in Notebooks /\ "train" \in done
        /\ eval_history.streak < early_stopping_patience) =>
      loop.total_batched_samples =
          trainer[1].args.num_train_epochs * LenDataloader(trainer[1])

\* C6 (as claimed): at every point during and after training the output
\* directory holds at most save_total_limit checkpoints.  Stated for the
\* checkpoints this run wrote, which are a part of the directory.
C6_SaveTotalLimit ==
    (notebook \in Notebooks /\ ran["train"] > 0) =>
      Cardinality(output_dir) <= TrainingArguments(notebook).save_total_limit

\* a step changes the number of checkpoints in the output directory as the
\* save of a checkpoint does: only the write of a checkpoint adds one, and
\* one only; the rotation that ends a save leaves at most save_total_limit,
\* whatever the directory held; so a directory within the limit holds at
\* most one more until the rotation
SaveKeepsTotalLimit ==
    LET limit == TrainingArguments(notebook).save_total_limit
        before == Cardinality(CheckpointDir)
        after == Cardinality(CheckpointDir')
    IN notebook \in Notebooks =>
         /\ after <= before + 1
         /\ after > before =>
              /\ tpc = "maybe_log_save_evaluate"
              /\ CheckpointDir' = CheckpointDir \cup {state.global_step}
              /\ tpc' = "rotate_checkpoints" \/ raised' = "KeyError"
         /\ (tpc = "rotate_checkpoints" /\ tpc' # "rotate_checkpoints") =>
              /\ after <= limit
              /\ after = IF before > limit THEN limit ELSE before
         /\ before <= limit => after <= limit + 1

\* C6 (amended): after every completed save of a checkpoint (write, then
\* rotation) the output directory holds at most save_total_limit
\* checkpoints (4 BERT, 5 final QLoRA, 2 draft); between the write and the
\* rotation it holds one more than before the write, up to
\* save_total_limit + 1 in a directory that was within the limit.
C6_SaveTotalLimitAfterRotation == [][SaveKeepsTotalLimit]_vars

\* C6 witness: the BERT run has completed a save that deleted a checkpoint
\* and the directory holds exactly save_total_limit checkpoints
C6_Witness ==
    /\ notebook = "bert"
    /\ tpc = "inner_loop"
    /\ Cardinality(CheckpointDir) = TrainingArguments(notebook).save_total_limit
    /\ eval_history.count > TrainingArguments(notebook).save_total_limit
    /\ state.global_step \in output_dir

\* class c (1-based position) is the first largest entry of row
IsFirstMax(row, c) ==
    /\ c \in 1..Len(row)
    /\ \A j \in 1..Len(row) : row[j] <= row[c]
    /\ \A j \in 1..(c - 1) : row[j] < row[c]

\* examples of the EvalPrediction ep whose predicted class is their label
CorrectExamples(ep) ==
    {i \in 1..Len(ep.label_ids) :
        IsFirstMax(ep.predictions[i], ep.label_ids[i] + 1)}

\* C7: for a batch of at least one example compute_metrics returns
\* {"accuracy": a} with a = (number of examples whose argmax is the label) /
\* (number of examples); so 0 <= a <= 1, a = 1 exactly when every prediction
\* is correct and a = 0 exactly when none is.
C7_Accuracy ==
    (result # None /\ Len(p[1].label_ids) >= 1) =>
      LET n == Len(p[1].label_ids)
          correct == CorrectExamples(p[1])
          a == result[1].accuracy
      IN /\ DOMAIN result[1] = {"accuracy"}
         /\ a.den = n
         /\ a.num = Cardinality(correct)
         /\ 0 <= a.num /\ a.num <= a.den
         /\ a.num = a.den <=> correct = 1..n
         /\ a.num = 0 <=> correct = {}

\* C7 witness: two examples, one predicted correctly through a tie of logits
C7_Witness ==
    /\ result # None
    /\ Len(p[1].label_ids) = 2
    /\ result[1].accuracy = [num |-> 1, den |-> 2]
    /\ \E i \in 1..2 :
          /\ i \in CorrectExamples(p[1])
          /\ Cardinality({c \in 1..NumLabels : p[1].predictions[i][c] = 1}) = 2

\* what C8 says of the output of print_trainable_parameters for the model
C8_Post ==
    LET ps == model[1].params
        every == SumNumel(ps, [i \in 1..Len(ps) |-> TRUE])
        trainable == SumNumel(ps, [i \in 1..Len(ps) |-> ps[i].requires_grad])
    IN /\ every > 0 => (Len(printed) = 1 /\ raised = "none")
       /\ Len(printed) >= 1 =>
            /\ printed[1].all_param = every
            /\ printed[1].trainable_params = trainable
            /\ 0 <= printed[1].trainable_params
            /\ printed[1].trainable_params <= printed[1].all_param
            /\ 0 <= printed[1].percent /\ printed[1].percent <= 10000

\* C8: print_trainable_parameters reports all_param = the sum of numel over
\* all parameters and trainable_params = the sum over those with
\* requires_grad, so 0 <= trainable_params <= all_param and the percentage
\* printed lies in [0, 100]; the call leaves the model's parameters and
\* their requires_grad flags as they were.
C8_PrintTrainableParameters == [][model' = model /\ C8_Post']_vars

\* C8 witness: a model with trainable and frozen elements has been reported
C8_Witness ==
    /\ notebook = "call print_trainable_parameters"
    /\ Len(printed) = 1
    /\ 0 < printed[1].trainable_params
    /\ printed[1].trainable_params < printed[1].all_param
    /\ Len(model[1].params) = MaxParams

\* C9: in the BERT notebook, when print_trainable_parameters is called and
\* when trainer.train() is called, every parameter of the model has
\* requires_grad true (trainable_params = all_param), and the line printed
\* reports 100%.
C9_BertAllTrainable ==
    notebook = "bert" =>
      /\ Stmt \in {"print_trainable_parameters", "train"} =>
            /\ \A i \in 1..Len(model[1].params) : model[1].params[i].requires_grad
            /\ CountParameters(model[1].params).trainable_params
                  = CountParameters(model[1].params).all_param
      /\ Len(printed) >= 1 =>
            /\ printed[1].trainable_params = printed[1].all_param
            /\ printed[1].percent = 10000

\* C9 witness: the BERT notebook is about to call trainer.train()
C9_Witness ==
    /\ notebook = "bert"
    /\ Stmt = "train"
    /\ Len(printed) = 1

\* parameters that were not pre-trained: the adapter matrices, the classifier
\* head and its trainable copy
NotPretrained == {"lora", "classifier", "modules_to_save"}

\* the number of elements of the trainable parameters of model mm
TrainableCount(mm) ==
    SumNumel(mm.params, [i \in 1..Len(mm.params) |-> mm.params[i].requires_grad])

\* the step that wraps the model leaves adapter and classifier parameters
\* trainable only, fewer than were trainable right before it
WrapLowersTrainableCount ==
    (notebook \in {"qlora", "draft"} /\ "get_peft_model" \notin done
        /\ "get_peft_model" \in done') =>
      /\ \A i \in 1..Len(model'[1].params) :
            model'[1].params[i].requires_grad
               <=> model'[1].params[i].name \in NotPretrained
      /\ TrainableCount(model'[1]) < TrainableCount(model[1])

\* C10 (as claimed): after get_peft_model only adapter (and classifier)
\* parameters are trainable, the base model is frozen, and the count of
\* trainable parameters is strictly smaller than before wrapping.
C10_FewerTrainableThanBeforeWrapping == [][WrapLowersTrainableCount]_vars

\* C10 (amended): from the return of get_peft_model until trainer.train()
\* is called (QLoRA notebooks), the trainable parameters are adapter or
\* classifier parameters only, every pre-trained parameter of the base
\* model is frozen, and the count of trainable parameters is strictly
\* smaller than the count printed for the model when it was loaded.  In the
\* final notebook prepare_model_for_kbit_training has frozen every
\* parameter before the model is wrapped: right before get_peft_model the
\* count is 0.
C10_OnlyAdapterTrainable ==
    /\ (notebook \in {"qlora", "draft"} /\ "get_peft_model" \in done
          /\ ran["train"] = 0) =>
        /\ \A i \in 1..Len(model[1].params) :
              model[1].params[i].requires_grad
                 <=> model[1].params[i].name \in NotPretrained
        /\ CountParameters(model[1].params).trainable_params
              < printed[1].trainable_params
        /\ 0 < CountParameters(model[1].params).trainable_params
    /\ (notebook = "qlora" /\ "prepare_model_for_kbit_training" \in done
          /\ "get_peft_model" \notin done) =>
        TrainableCount(model[1]) = 0

\* C10 witness: the wrapped quantized model is about to be trained
C10_Witness ==
    /\ notebook = "qlora"
    /\ "get_peft_model" \in done
    /\ Stmt = "train"
    /\ \E i \in 1..Len(model[1].params) : model[1].params[i].name = "lora"

\* C11 (as claimed): in the QLoRA notebook the configuration that
\* get_peft_model applied to the model is `config`, the one built with
\* target_modules = find_all_linear_names(model) and with modules_to_save.
C11_AppliedConfigIsConfig ==
    (notebook = "qlora" /\ "get_peft_model" \in done) =>
      /\ model[1].peft_config = Some(config)
      /\ model[1].peft_config[1].target_modules = "find_all_linear_names"
      /\ model[1].peft_config[1].modules_to_save # {}

\* C12: from the moment trainer.train() is invoked in the final QLoRA
\* notebook, the model being trained was loaded in 4 bit with quant type NF4
\* and double quantization, and the optimizer of the Trainer is
\* paged_adamw_8bit.
C12_QLoRATechniquesInEffect ==
    (notebook = "qlora" /\ (Stmt = "train" \/ ran["train"] > 0)) =>
      /\ model[1].quantization_config # None
      /\ model[1].quantization_config[1].load_in_4bit
      /\ model[1].quantization_config[1].bnb_4bit_quant_type = "nf4"
      /\ model[1].quantization_config[1].bnb_4bit_use_double_quant
      /\ \E i \in 1..Len(model[1].params) : model[1].params[i].is_4bit
      /\ trainer[1].args.optim = "paged_adamw_8bit"

\* C12 witness: trainer.train() has just been invoked in the final notebook
C12_Witness ==
    /\ notebook = "qlora"
    /\ ran["train"] = 1
    /\ tpc = "inner_loop"
    /\ loop.total_batched_samples = 0

C14_DatasetDirectoryUntouched ==
    /\ tokenized_dataset = TokenizedDataset
    /\ dataset_dict # None => dataset_dict[1] = TokenizedDataset
    /\ trainer # None =>
         /\ trainer[1].train_dataset = TokenizedDataset.train
         /\ trainer[1].eval_dataset = TokenizedDataset.test

\* C14 witness: a training run has failed after writing a checkpoint
C14_Witness ==
    /\ raised # "none"
    /\ trainer # None
    /\ state.global_step \in output_dir
    /\ dataset_dict = Some(tokenized_dataset)

\* a step of a final notebook raises no KeyError, and if it saves a
\* checkpoint, it is the checkpoint of the optimizer step just evaluated
\* and the metrics of that evaluation hold the selection key
SavesWithSelectionMetric ==
    notebook \in {"bert", "qlora"} =>
      /\ raised' = "none"
      /\ (output_dir' \ output_dir # {}) =>
           /\ output_dir' \ output_dir = {state'.global_step}
           /\ metrics' # None
           /\ MetricToCheck(trainer[1].args) = "accuracy"
           /\ MetricToCheck(trainer[1].args) \in DOMAIN metrics'[1]
           /\ state'.best_metric # None
           /\ ~ FracGreater(metrics'[1]["accuracy"], state'.best_metric[1])

\* C15: in the BERT and the final QLoRA notebook no step raises a KeyError,
\* and every step that saves a checkpoint has evaluated the model at that
\* optimizer step with metrics that hold the key used to select the best
\* checkpoint ("accuracy"); the best metric recorded is then that value or
\* a better one.
C15_SelectionMetricPresent == [][SavesWithSelectionMetric]_vars

\* C15 witness: the final QLoRA run has saved its third checkpoint
C15_Witness ==
    /\ notebook = "qlora"
    /\ state.global_step = 30
    /\ state.global_step \in output_dir
    /\ metrics # None
    /\ "accuracy" \in DOMAIN metrics[1]

\* C16: in the draft QLoRA run (100 optimizer steps) the KeyError is raised
\* at optimizer step 10, in the step that ran the first evaluation and
\* wrote the first checkpoint; no optimizer step beyond 10 is ever taken, no
\* second evaluation runs, and no best metric or best checkpoint is ever
\* recorded.
C16_DraftFailsAtFirstSave ==
    notebook = "draft" =>
      /\ state.global_step <= 10
      /\ eval_history.count <= 1
      /\ state.best_metric = None
      /\ state.best_model_checkpoint = None
      /\ eval_history.count = 1 <=> raised = "KeyError"
      /\ raised # "none" =>
           /\ raised = "KeyError"
           /\ state.max_steps = 100
           /\ state.global_step = 10
           /\ loop.total_batched_samples = 10
           /\ output_dir = {10}

\* C16 witness: the draft run has stopped with the KeyError, 90 of its 100
\* steps remaining
C16_Witness ==
    /\ notebook = "draft"
    /\ raised = "KeyError"
    /\ state.max_steps - state.global_step = 90
    /\ metrics # None
    /\ "loss" \notin DOMAIN metrics[1]

====
